---- MODULE Spec2Model ----
(***************************************************************************)
(* Model of peco's config.go: the style-token resolver (stringsToStyle),   *)
(* the rc-file search (LocateRcfile) and the configuration loader          *)
(* (NewConfig, Config.ReadFilename, Style.UnmarshalJSON).                  *)
(***************************************************************************)
EXTENDS Integers, Sequences, FiniteSets, TLC

VARIABLES
    raw, style, styled,                              \* stringsToStyle: argument, result, called
    xdgHome, xdgDirs, homeOk, fs, probed, located,   \* LocateRcfile: environment, filesystem, probes, result
    cfg, pre, doc, err, calls, handles, trace        \* ReadFilename: target, target at entry, file, result, handles

styleVars  == <<raw, style, styled>>
locateVars == <<xdgHome, xdgDirs, homeOk, fs, probed, located>>
configVars == <<cfg, pre, doc, err, calls, handles, trace>>
vars       == <<styleVars, locateVars, configVars>>

(***************************************************************************)
(* Bounds of the model.                                                    *)
(***************************************************************************)
MaxLen == 2
MaxDirsLen == 3
MaxMembers == 2
MaxCalls == 2

(***************************************************************************)
(* termbox attributes: colours are small numbers, emphases are single bits *)
(* above them.                                                             *)
(***************************************************************************)
ColorDefault == 0
ColorBlack == 1
ColorRed == 2
ColorGreen == 3
ColorYellow == 4
ColorBlue == 5
ColorMagenta == 6
ColorCyan == 7
ColorWhite == 8
AttrBold == 512
AttrUnderline == 1024
AttrReverse == 2048

\* Go's a | b on termbox.Attribute (an unsigned 16 bit value).
RECURSIVE BitOr(_, _)
BitOr(a, b) ==
    IF a = 0 THEN b
    ELSE IF b = 0 THEN a
    ELSE (IF a % 2 = 1 \/ b % 2 = 1 THEN 1 ELSE 0) + 2 * BitOr(a \div 2, b \div 2)

stringToFg ==
    [s \in {"default", "black", "red", "green", "yellow", "blue", "magenta", "cyan", "white"} |->
        CASE s = "default" -> ColorDefault
          [] s = "black"   -> ColorBlack
          [] s = "red"     -> ColorRed
          [] s = "green"   -> ColorGreen
          [] s = "yellow"  -> ColorYellow
          [] s = "blue"    -> ColorBlue
          [] s = "magenta" -> ColorMagenta
          [] s = "cyan"    -> ColorCyan
          [] s = "white"   -> ColorWhite]

stringToBg ==
    [s \in {"on_default", "on_black", "on_red", "on_green", "on_yellow", "on_blue",
            "on_magenta", "on_cyan", "on_white"} |->
        CASE s = "on_default" -> ColorDefault
          [] s = "on_black"   -> ColorBlack
          [] s = "on_red"     -> ColorRed
          [] s = "on_green"   -> ColorGreen
          [] s = "on_yellow"  -> ColorYellow
          [] s = "on_blue"    -> ColorBlue
          [] s = "on_magenta" -> ColorMagenta
          [] s = "on_cyan"    -> ColorCyan
          [] s = "on_white"   -> ColorWhite]

stringToFgAttr ==
    [s \in {"bold", "underline", "blink"} |->
        CASE s = "bold"      -> AttrBold
          [] s = "underline" -> AttrUnderline
          [] s = "blink"     -> AttrReverse]

stringToBgAttr ==
    [s \in {"blink"} |-> AttrBold]

\* type Style struct { fg, bg termbox.Attribute }
Style(fg, bg) == [fg |-> fg, bg |-> bg]

\* First loop of stringsToStyle: base colours, the last match wins.
RECURSIVE ColourLoop(_, _, _)
ColourLoop(st, tokens, i) ==
    IF i > Len(tokens) THEN st
    ELSE LET s  == tokens[i]
             s1 == IF s \in DOMAIN stringToFg THEN [st EXCEPT !.fg = stringToFg[s]] ELSE st
             s2 == IF s \in DOMAIN stringToBg THEN [s1 EXCEPT !.bg = stringToBg[s]] ELSE s1
         IN  ColourLoop(s2, tokens, i + 1)

\* Second loop of stringsToStyle: emphases are OR-ed onto the attribute.
RECURSIVE AttrLoop(_, _, _)
AttrLoop(st, tokens, i) ==
    IF i > Len(tokens) THEN st
    ELSE LET s  == tokens[i]
             s1 == IF s \in DOMAIN stringToFgAttr
                   THEN [st EXCEPT !.fg = BitOr(@, stringToFgAttr[s])] ELSE st
             s2 == IF s \in DOMAIN stringToBgAttr
                   THEN [s1 EXCEPT !.bg = BitOr(@, stringToBgAttr[s])] ELSE s1
         IN  AttrLoop(s2, tokens, i + 1)

\* A resolver with one loop, where a colour token assigns the whole attribute
\* and so drops the emphases of the tokens before it.
RECURSIVE OneLoop(_, _, _)
OneLoop(st, tokens, i) ==
    IF i > Len(tokens) THEN st
    ELSE LET s  == tokens[i]
             s1 == IF s \in DOMAIN stringToFg THEN [st EXCEPT !.fg = stringToFg[s]] ELSE st
             s2 == IF s \in DOMAIN stringToBg THEN [s1 EXCEPT !.bg = stringToBg[s]] ELSE s1
             s3 == IF s \in DOMAIN stringToFgAttr
                   THEN [s2 EXCEPT !.fg = BitOr(@, stringToFgAttr[s])] ELSE s2
             s4 == IF s \in DOMAIN stringToBgAttr
                   THEN [s3 EXCEPT !.bg = BitOr(@, stringToBgAttr[s])] ELSE s3
         IN  OneLoop(s4, tokens, i + 1)

stringsToStyleOneLoop(tokens) == OneLoop(Style(ColorDefault, ColorDefault), tokens, 1)

stringsToStyle(tokens) ==
    AttrLoop(ColourLoop(Style(ColorDefault, ColorDefault), tokens, 1), tokens, 1)

(***************************************************************************)
(* The resolver applied to every token sequence up to MaxLen.              *)
(***************************************************************************)
Tokens ==
    DOMAIN stringToFg \cup DOMAIN stringToBg \cup DOMAIN stringToFgAttr
        \cup DOMAIN stringToBgAttr \cup {"foo"}

SeqsUpTo(S, n) == UNION {[1..k -> S] : k \in 0..n}

IdleStyle  == raw = <<>> /\ style = Style(ColorDefault, ColorDefault) /\ styled = FALSE

ResolveStyle ==
    /\ ~styled
    /\ style' = stringsToStyle(raw)
    /\ styled' = TRUE
    /\ UNCHANGED <<raw, locateVars, configVars>>

(***************************************************************************)
(* LocateRcfile.  A path is the sequence of its elements; filepath.Join    *)
(* appends elements.  An environment value is a sequence too: the empty    *)
(* sequence is the empty (or unset) variable, and XDG_CONFIG_DIRS is a     *)
(* string of directory elements and list separators.                       *)
(***************************************************************************)
ListSeparator == ":"
DirAtoms == {"/a", "/b"}
HomeDir == <<"/h">>
XdgHomes == {<<>>, <<"/a">>}
Kinds == {"absent", "regular", "directory"}
NotFound == "error: Config file not found"

Join(dir, elem) == Append(dir, elem)

\* strings.Split(dirs, string(filepath.ListSeparator))
RECURSIVE SplitLoop(_, _, _, _)
SplitLoop(s, i, cur, acc) ==
    IF i > Len(s) THEN Append(acc, cur)
    ELSE IF s[i] = ListSeparator THEN SplitLoop(s, i + 1, <<>>, Append(acc, cur))
    ELSE SplitLoop(s, i + 1, Append(cur, s[i]), acc)

Split(s) == SplitLoop(s, 1, <<>>, <<>>)

\* os.Stat(file) returns no error: the name resolves to an entry of any kind.
Stat(file) == fs[file] # "absent"

\* locateRcfileIn, with the probed file recorded behind the probes so far.
locateRcfileIn(dir, probes) ==
    LET file == Join(dir, "config.json")
    IN  IF ~Stat(file)
        THEN [file |-> <<>>, err |-> "stat", probes |-> Append(probes, file)]
        ELSE [file |-> file, err |-> "", probes |-> Append(probes, file)]

NoProbe(probes) == [file |-> <<>>, err |-> "none", probes |-> probes]

\* A loop over the XDG_CONFIG_DIRS entries that keeps probing after a hit.
RECURSIVE DirsLoopNoStop(_, _, _, _)
DirsLoopNoStop(dirs, i, probes, found) ==
    IF i > Len(dirs)
    THEN IF found = <<>> THEN NoProbe(probes) ELSE [file |-> found, err |-> "", probes |-> probes]
    ELSE LET r == locateRcfileIn(Join(dirs[i], "peco"), probes)
         IN  DirsLoopNoStop(dirs, i + 1, r.probes,
                            IF found = <<>> /\ r.err = "" THEN r.file ELSE found)

DirsLoopProbeAll(dirs, i, probes) == DirsLoopNoStop(dirs, i, probes, <<>>)

\* for _, dir := range strings.Split(dirs, ...) { ... return on the first hit }
RECURSIVE DirsLoop(_, _, _)
DirsLoop(dirs, i, probes) ==
    IF i > Len(dirs) THEN NoProbe(probes)
    ELSE LET r == locateRcfileIn(Join(dirs[i], "peco"), probes)
         IN  IF r.err = "" THEN r ELSE DirsLoop(dirs, i + 1, r.probes)

\* First block with the else-branch taken whenever the first probe misses.
TryConfigHomeBoth ==
    LET r == IF xdgHome # <<>> THEN locateRcfileIn(Join(xdgHome, "peco"), <<>>)
             ELSE NoProbe(<<>>)
    IN  IF r.err = "" \/ ~homeOk THEN r
        ELSE locateRcfileIn(Join(Join(HomeDir, ".config"), "peco"), r.probes)

\* if dir := os.Getenv("XDG_CONFIG_HOME"); dir != "" {...} else if uErr == nil {...}
TryConfigHome ==
    IF xdgHome # <<>> THEN locateRcfileIn(Join(xdgHome, "peco"), <<>>)
    ELSE IF homeOk THEN locateRcfileIn(Join(Join(HomeDir, ".config"), "peco"), <<>>)
    ELSE NoProbe(<<>>)

\* if dirs := os.Getenv("XDG_CONFIG_DIRS"); dirs != "" { for ... }
TryConfigDirs(probes) ==
    IF xdgDirs # <<>> THEN DirsLoop(Split(xdgDirs), 1, probes) ELSE NoProbe(probes)

\* if uErr == nil { ... filepath.Join(home, ".peco") ... }
TryHomeDot(probes) ==
    IF homeOk THEN locateRcfileIn(Join(HomeDir, ".peco"), probes) ELSE NoProbe(probes)

\* The search with the legacy home location tried before the XDG_CONFIG_DIRS entries.
LocateRcfileHomeFirst ==
    LET r1 == TryConfigHome
    IN  IF r1.err = "" THEN r1
        ELSE LET r3 == TryHomeDot(r1.probes)
             IN  IF r3.err = "" THEN r3
                 ELSE LET r2 == TryConfigDirs(r3.probes)
                      IN  IF r2.err = "" THEN r2
                          ELSE [file |-> <<>>, err |-> NotFound, probes |-> r2.probes]

LocateRcfile ==
    LET r1 == TryConfigHome
    IN  IF r1.err = "" THEN r1
        ELSE LET r2 == TryConfigDirs(r1.probes)
             IN  IF r2.err = "" THEN r2
                 ELSE LET r3 == TryHomeDot(r2.probes)
                      IN  IF r3.err = "" THEN r3
                          ELSE [file |-> <<>>, err |-> NotFound, probes |-> r3.probes]

\* Every file name a search may ask about in the environment (h, d).
RcPath(dir) == Join(Join(dir, "peco"), "config.json")
HomeConfigPath == RcPath(Join(HomeDir, ".config"))
HomeDotPath == Join(Join(HomeDir, ".peco"), "config.json")
DirsPaths(d) == IF d = <<>> THEN {} ELSE {RcPath(Split(d)[i]) : i \in 1..Len(Split(d))}
Universe(h, d) ==
    (IF h = <<>> THEN {} ELSE {RcPath(h)}) \cup DirsPaths(d) \cup {HomeConfigPath, HomeDotPath}

NoResult == [called |-> FALSE, file |-> <<>>, err |-> ""]

IdleLocate ==
    /\ xdgHome = <<>> /\ xdgDirs = <<>> /\ homeOk = FALSE
    /\ fs = [p \in {HomeConfigPath, HomeDotPath} |-> "absent"]
    /\ probed = <<>> /\ located = NoResult

Locate ==
    /\ ~located.called
    /\ LET r == LocateRcfile
       IN  /\ located' = [called |-> TRUE, file |-> r.file, err |-> r.err]
           /\ probed' = r.probes
    /\ UNCHANGED <<xdgHome, xdgDirs, homeOk, fs, styleVars, configVars>>

(***************************************************************************)
(* Config.  A map is a flag (set, or nil) and its entries over Keys, with  *)
(* Absent for a key the map does not hold.  The values of Action and       *)
(* CustomMatcher (token sequences) are named, like those of Keymap.        *)
(***************************************************************************)
Keys == {"k1", "k2"}
Vals == {"v1", "v2"}
Absent == "-"
Slots == {"Basic", "SavedSelection", "Selected", "Query", "Matched"}
MapFields == {"Action", "Keymap", "CustomMatcher"}
StringFields == {"Matcher", "Prompt"}
Fields == MapFields \cup StringFields \cup {"Style"}
IgnoreCaseMatch == "IgnoreCase"

EmptyEntries == [k \in Keys |-> Absent]
NilMap == [set |-> FALSE, m |-> EmptyEntries]
MakeMap == [set |-> TRUE, m |-> EmptyEntries]

NewStyleSet ==
    [s \in Slots |->
        CASE s = "Basic"          -> Style(ColorDefault, ColorDefault)
          [] s = "SavedSelection" -> Style(BitOr(ColorBlack, AttrBold), ColorCyan)
          [] s = "Selected"       -> Style(BitOr(ColorDefault, AttrUnderline), ColorMagenta)
          [] s = "Query"          -> Style(ColorDefault, ColorDefault)
          [] s = "Matched"        -> Style(ColorCyan, ColorDefault)]

\* A constructor that leaves Keymap unset as well.
NewConfigNoKeymap ==
    [Action |-> NilMap, Keymap |-> NilMap, Matcher |-> IgnoreCaseMatch,
     Style |-> NewStyleSet, CustomMatcher |-> NilMap, Prompt |-> "QUERY>"]

NewConfig ==
    [Action |-> NilMap, Keymap |-> MakeMap, Matcher |-> IgnoreCaseMatch,
     Style |-> NewStyleSet, CustomMatcher |-> NilMap, Prompt |-> "QUERY>"]

\* The zero value of Config.
ZeroConfig ==
    [Action |-> NilMap, Keymap |-> NilMap, Matcher |-> "",
     Style |-> [s \in Slots |-> Style(0, 0)], CustomMatcher |-> NilMap, Prompt |-> ""]

(***************************************************************************)
(* JSON values and documents.  An object is the sequence of its members in *)
(* document order; a map object is given by its entries.                   *)
(***************************************************************************)
JNull == [kind |-> "null", str |-> "", map |-> EmptyEntries, toks |-> <<>>, slots |-> <<>>]
JNumber == [JNull EXCEPT !.kind = "number"]
JString(s) == [JNull EXCEPT !.kind = "string", !.str = s]
JMap(m) == [JNull EXCEPT !.kind = "object", !.map = m]
JArray(t) == [JNull EXCEPT !.kind = "array", !.toks = t]
JStyleSet(sl) == [JNull EXCEPT !.kind = "object", !.slots = sl]
Member(k, v) == [key |-> k, val |-> v]
Entry(k, v) == [EmptyEntries EXCEPT ![k] = v]

\* State of one decode: the target, the earliest saved type error, the error
\* that stopped the decode.
DecodeState(c) == [cfg |-> c, saved |-> "", abort |-> ""]
SaveError(st, e) == IF st.saved = "" THEN [st EXCEPT !.saved = e] ELSE st

\* encoding/json into a string field.
decodeString(st, field, v) ==
    CASE v.kind = "string" -> [st EXCEPT !.cfg[field] = v.str]
      [] v.kind = "null"   -> st
      [] OTHER             -> SaveError(st, "type")

\* A map decode that allocates a new map for every object.
decodeMapReplace(st, field, v) ==
    CASE v.kind = "object" -> [st EXCEPT !.cfg[field] = [set |-> TRUE, m |-> v.map]]
      [] v.kind = "null"   -> [st EXCEPT !.cfg[field] = NilMap]
      [] OTHER             -> SaveError(st, "type")

\* encoding/json into a map field: a nil map is allocated, a set map is reused
\* and keeps the entries the object does not name; null stores the nil map.
decodeMap(st, field, v) ==
    CASE v.kind = "object" ->
            [st EXCEPT !.cfg[field] =
                [set |-> TRUE,
                 m   |-> [k \in Keys |-> IF v.map[k] # Absent THEN v.map[k] ELSE @.m[k]]]]
      [] v.kind = "null"   -> [st EXCEPT !.cfg[field] = NilMap]
      [] OTHER             -> SaveError(st, "type")

\* Style.UnmarshalJSON: json.Unmarshal(buf, &raw) where raw is []string, then
\* *s = *stringsToStyle(raw); an error returns before the assignment and stops
\* the enclosing decode.
UnmarshalJSON(st, slot, v) ==
    CASE v.kind = "array" -> [st EXCEPT !.cfg.Style[slot] = stringsToStyle(v.toks)]
      [] v.kind = "null"  -> [st EXCEPT !.cfg.Style[slot] = stringsToStyle(<<>>)]
      [] OTHER            -> [st EXCEPT !.abort = "type"]

\* The members of a Style object, in order.
RECURSIVE decodeSlots(_, _, _)
decodeSlots(st, sl, i) ==
    IF i > Len(sl) \/ st.abort # "" THEN st
    ELSE decodeSlots(IF sl[i].key \in Slots THEN UnmarshalJSON(st, sl[i].key, sl[i].val) ELSE st,
                     sl, i + 1)

\* encoding/json into the StyleSet struct.
decodeStyleSet(st, v) ==
    CASE v.kind = "object" -> decodeSlots(st, v.slots, 1)
      [] v.kind = "null"   -> st
      [] OTHER             -> SaveError(st, "type")

decodeMember(st, mem) ==
    CASE mem.key \in StringFields -> decodeString(st, mem.key, mem.val)
      [] mem.key \in MapFields    -> decodeMap(st, mem.key, mem.val)
      [] mem.key = "Style"        -> decodeStyleSet(st, mem.val)
      [] OTHER                    -> st

\* The members of the top-level object, in order.
RECURSIVE decodeMembers(_, _, _)
decodeMembers(st, ms, i) ==
    IF i > Len(ms) \/ st.abort # "" THEN st
    ELSE decodeMembers(decodeMember(st, ms[i]), ms, i + 1)

DecodeResult(st) ==
    [cfg |-> st.cfg, err |-> IF st.abort # "" THEN st.abort ELSE st.saved]

\* A decoder that stores the members as it reads them and reports the syntax
\* error where it meets it.
DecodeStreaming(c, d) ==
    LET r == DecodeResult(decodeMembers(DecodeState(c), d.members, 1))
    IN  IF d.kind = "syntax" THEN [r EXCEPT !.err = "syntax"] ELSE r

\* A decoder that decodes onto the zero Config.
DecodeZero(c, d) ==
    IF d.kind = "syntax" THEN [cfg |-> c, err |-> "syntax"]
    ELSE DecodeResult(decodeMembers(DecodeState(ZeroConfig), d.members, 1))

\* json.NewDecoder(f).Decode(c): the whole value is read and checked for syntax
\* before anything is stored.
Decode(c, d) ==
    IF d.kind = "syntax" THEN [cfg |-> c, err |-> "syntax"]
    ELSE DecodeResult(decodeMembers(DecodeState(c), d.members, 1))

\* ReadFilename where Close is called on the success path only.
ReadFilenameNoDefer(c, d) ==
    IF d.kind = "noent"
    THEN [cfg |-> c, err |-> "open", trace |-> <<"openfail", "return">>]
    ELSE LET r == Decode(c, d)
         IN  IF r.err # ""
             THEN [cfg |-> r.cfg, err |-> r.err, trace |-> <<"open", "decode", "return">>]
             ELSE [cfg |-> r.cfg, err |-> "", trace |-> <<"open", "decode", "close", "return">>]

\* ReadFilename: os.Open, defer f.Close(), Decode, return.
ReadFilenameRun(c, d) ==
    IF d.kind = "noent"
    THEN [cfg |-> c, err |-> "open", trace |-> <<"openfail", "return">>]
    ELSE LET r == Decode(c, d)
         IN  [cfg |-> r.cfg, err |-> r.err, trace |-> <<"open", "decode", "close", "return">>]

Count(t, e) == Cardinality({i \in 1..Len(t) : t[i] = e})

(***************************************************************************)
(* The files ReadFilename is given.                                        *)
(***************************************************************************)
Members ==
    { Member("Prompt", JString("> ")),
      Member("Matcher", JString("Regexp")),
      Member("Matcher", JNumber),
      Member("Keymap", JMap(Entry("k1", "v1"))),
      Member("Keymap", JMap(Entry("k2", "v2"))),
      Member("Keymap", JNull),
      Member("Action", JMap(Entry("k1", "v1"))),
      Member("Action", JMap(Entry("k2", "v2"))),
      Member("CustomMatcher", JMap(Entry("k1", "v2"))),
      Member("Style", JStyleSet(<<>>)),
      Member("Style", JStyleSet(<<Member("Basic", JArray(<<"on_blue", "underline">>))>>)),
      Member("Style", JStyleSet(<<Member("Matched", JArray(<<"bold", "red">>))>>)),
      Member("Style", JStyleSet(<<Member("Selected", JString("red"))>>)),
      Member("Style", JNumber),
      Member("Other", JNumber) }

NoDoc == [kind |-> "none", members |-> <<>>]
Docs ==
    {[kind |-> "noent", members |-> <<>>]}
        \cup {[kind |-> k, members |-> ms] :
                 k \in {"object", "syntax"}, ms \in SeqsUpTo(Members, MaxMembers)}

IdleConfig ==
    /\ cfg = NewConfig /\ pre = NewConfig /\ doc = NoDoc
    /\ err = "" /\ calls = 0 /\ handles = 0 /\ trace = <<>>

ReadFilename(d) ==
    /\ calls < MaxCalls
    /\ LET r == ReadFilenameRun(cfg, d)
       IN  /\ cfg' = r.cfg
           /\ err' = r.err
           /\ trace' = r.trace
           /\ handles' = handles + Count(r.trace, "open") - Count(r.trace, "close")
    /\ pre' = cfg
    /\ doc' = d
    /\ calls' = calls + 1
    /\ UNCHANGED <<styleVars, locateVars>>

Read == \E d \in Docs : ReadFilename(d)

(***************************************************************************)
(* Specifications.                                                         *)
(***************************************************************************)
InitStyle ==
    /\ raw \in SeqsUpTo(Tokens, MaxLen)
    /\ style = Style(ColorDefault, ColorDefault) /\ styled = FALSE
    /\ IdleLocate /\ IdleConfig

SpecStyle == InitStyle /\ [][ResolveStyle]_vars

InitLocate ==
    /\ xdgHome \in XdgHomes
    /\ xdgDirs \in SeqsUpTo(DirAtoms \cup {ListSeparator}, MaxDirsLen)
    /\ homeOk \in BOOLEAN
    /\ fs \in [Universe(xdgHome, xdgDirs) -> Kinds]
    /\ probed = <<>> /\ located = NoResult
    /\ IdleStyle /\ IdleConfig

SpecLocate == InitLocate /\ [][Locate]_vars

InitConfig == IdleStyle /\ IdleLocate /\ IdleConfig

SpecConfig == InitConfig /\ [][Read]_vars

(***************************************************************************)
(* Properties of stringsToStyle (SpecStyle).                               *)
(***************************************************************************)
Max(S) == CHOOSE x \in S : \A y \in S : y <= x
Min(S) == CHOOSE x \in S : \A y \in S : x <= y
Range(f) == {f[i] : i \in DOMAIN f}

RECURSIVE OrAll(_)
OrAll(S) == IF S = {} THEN 0 ELSE LET x == CHOOSE y \in S : TRUE IN BitOr(x, OrAll(S \ {x}))

Found(t, table) == {i \in 1..Len(t) : t[i] \in DOMAIN table}
LastColour(t, table) ==
    IF Found(t, table) = {} THEN ColorDefault ELSE table[t[Max(Found(t, table))]]
Emphases(t, table) == {table[t[i]] : i \in Found(t, table)}
BaseColour(attr) == attr % AttrBold

\* C2: the foreground is the colour of the last foreground-colour token (default
\* if none) OR-ed with the emphasis of every foreground-emphasis token, the
\* background likewise from the background tables; a sequence with no recognised
\* token gives the all-default Style; an emphasis never changes the base colour.
C2_Resolved ==
    styled =>
        /\ style.fg = BitOr(LastColour(raw, stringToFg), OrAll(Emphases(raw, stringToFgAttr)))
        /\ style.bg = BitOr(LastColour(raw, stringToBg), OrAll(Emphases(raw, stringToBgAttr)))
        /\ BaseColour(style.fg) = LastColour(raw, stringToFg)
        /\ BaseColour(style.bg) = LastColour(raw, stringToBg)
        /\ (\A i \in 1..Len(raw) : raw[i] = "foo") => style = Style(ColorDefault, ColorDefault)

C2_Witness ==
    styled /\ raw = <<"bold", "red">> /\ style = Style(ColorRed + AttrBold, ColorDefault)

(***************************************************************************)
(* Properties of LocateRcfile (SpecLocate).                                *)
(***************************************************************************)
FirstCandidate ==
    IF xdgHome # <<>> THEN <<RcPath(xdgHome)>>
    ELSE IF homeOk THEN <<HomeConfigPath>>
    ELSE <<>>
DirsCandidates ==
    IF xdgDirs # <<>> THEN [i \in 1..Len(Split(xdgDirs)) |-> RcPath(Split(xdgDirs)[i])] ELSE <<>>
LastCandidate == IF homeOk THEN <<HomeDotPath>> ELSE <<>>
LaterCandidates == DirsCandidates \o LastCandidate
Candidates == FirstCandidate \o LaterCandidates
Existing(c) == {i \in 1..Len(c) : fs[c[i]] # "absent"}

\* C1: the search returns the first existing path of the candidate list and
\* fails, with the not-found error only, exactly when no candidate exists.
C1_FirstExisting ==
    located.called =>
        /\ Existing(Candidates) # {} =>
              located.err = "" /\ located.file = Candidates[Min(Existing(Candidates))]
        /\ Existing(Candidates) = {} => located.err = NotFound /\ located.file = <<>>
        /\ located.err \in {"", NotFound}

C1_Witness ==
    /\ located.called /\ ~homeOk /\ xdgHome # <<>>
    /\ Len(Candidates) = 3 /\ Existing(Candidates) = {2, 3} /\ Candidates[2] # Candidates[3]
    /\ located.file = Candidates[2]

\* C7: the candidates are probed in search order and no candidate is probed
\* after one that exists; an existing <XDG_CONFIG_HOME>/peco/config.json is the
\* only probe of the call and its result.
C7_StopAtFirstHit ==
    located.called =>
        /\ Len(probed) <= Len(Candidates)
        /\ \A i \in 1..Len(probed) : probed[i] = Candidates[i]
        /\ \A i \in 1..(Len(probed) - 1) : fs[probed[i]] = "absent"
        /\ (xdgHome # <<>> /\ fs[RcPath(xdgHome)] # "absent") =>
              probed = <<RcPath(xdgHome)>> /\ located.file = RcPath(xdgHome)

C7_Witness ==
    /\ located.called /\ xdgHome # <<>> /\ fs[RcPath(xdgHome)] = "regular"
    /\ homeOk /\ fs[HomeDotPath] = "regular"
    /\ xdgDirs = <<"/b">> /\ fs[RcPath(<<"/b">>)] = "regular"
    /\ probed = <<RcPath(xdgHome)>>

\* C8 (as claimed): a path returned without error names a regular file.
C8_RegularFile ==
    (located.called /\ located.err = "") => fs[located.file] = "regular"

\* C10: with XDG_CONFIG_HOME non-empty <home>/.config/peco/config.json is never
\* probed; and when the first probe misses or is not made, every later candidate
\* with no existing candidate before it is probed.
C10_OneOfTwo ==
    located.called =>
        /\ xdgHome # <<>> => HomeConfigPath \notin Range(probed)
        /\ xdgHome = <<>> =>
              \A p \in Range(probed) : p \in Range(DirsCandidates) \cup {HomeConfigPath, HomeDotPath}
        /\ Existing(FirstCandidate) = {} =>
              \A j \in 1..Len(LaterCandidates) :
                  (\A k \in 1..(j - 1) : fs[LaterCandidates[k]] = "absent")
                      => LaterCandidates[j] \in Range(probed)

C10_Witness ==
    /\ located.called /\ xdgHome # <<>> /\ fs[RcPath(xdgHome)] = "absent"
    /\ homeOk /\ fs[HomeConfigPath] = "regular" /\ fs[HomeDotPath] = "regular"
    /\ xdgDirs = <<"/b">> /\ fs[RcPath(<<"/b">>)] = "absent"
    /\ probed = <<RcPath(xdgHome), RcPath(<<"/b">>), HomeDotPath>>
    /\ located.file = HomeDotPath

(***************************************************************************)
(* Properties of NewConfig and ReadFilename (SpecConfig).                  *)
(***************************************************************************)
Mentions(f) == \E i \in 1..Len(doc.members) : doc.members[i].key = f
MentionsSlot(s) ==
    \E i \in 1..Len(doc.members) :
        /\ doc.members[i].key = "Style"
        /\ \E j \in 1..Len(doc.members[i].val.slots) : doc.members[i].val.slots[j].key = s
Mentioning(f) == {i \in 1..Len(doc.members) : doc.members[i].key = f}
Overlay(old, new) == [k \in Keys |-> IF new[k] # Absent THEN new[k] ELSE old[k]]

\* C3: after a successful call, a field absent from the document and a Style
\* slot absent from its Style object have the value they had before the call;
\* {} changes nothing and {"Prompt": "> "} changes Prompt only.
C3_AbsentKept ==
    (calls > 0 /\ err = "") =>
        /\ \A f \in Fields : ~Mentions(f) => cfg[f] = pre[f]
        /\ \A s \in Slots : ~MentionsSlot(s) => cfg.Style[s] = pre.Style[s]
        /\ doc.members = <<>> => cfg = pre
        /\ doc.members = <<Member("Prompt", JString("> "))>> => cfg = [pre EXCEPT !.Prompt = "> "]

C3_Witness ==
    /\ calls = 1 /\ err = "" /\ doc.members = <<Member("Prompt", JString("> "))>>
    /\ cfg.Prompt = "> " /\ cfg.Matcher = IgnoreCaseMatch /\ cfg.Style = NewStyleSet

C5_Unmutated == (calls > 0 /\ err # "") => cfg = pre

\* C5 (amended): when the file cannot be opened or is not well-formed every field
\* has the value it had before the call; when a field has the wrong shape the
\* fields and Style slots the document does not mention keep their value.
C5_UnmutatedUnlessShape ==
    (calls > 0 /\ err # "") =>
        /\ err \in {"open", "syntax"} => cfg = pre
        /\ \A f \in Fields : ~Mentions(f) => cfg[f] = pre[f]
        /\ \A s \in Slots : ~MentionsSlot(s) => cfg.Style[s] = pre.Style[s]

C5_Witness ==
    /\ calls = 2 /\ err = "syntax" /\ Mentions("Prompt") /\ pre # NewConfig
    /\ cfg = pre /\ cfg.Prompt = "QUERY>"

\* C6 (as claimed): a fresh Configuration holds three empty maps that are set
\* and the documented defaults, and a map stays set when the document does not
\* mention it.
C6_AllMapsSet ==
    /\ calls = 0 =>
          /\ \A f \in MapFields : cfg[f] = MakeMap
          /\ cfg.Matcher = "IgnoreCase" /\ cfg.Prompt = "QUERY>"
    /\ \A f \in MapFields : ~Mentions(f) => cfg[f].set

\* C6 (amended): a fresh Configuration holds an empty Keymap that is set, an
\* Action and a CustomMatcher that are unset, Matcher "IgnoreCase", Prompt
\* "QUERY>" and the five default styles; a map the document does not mention is
\* after the call what it was before it, set or unset.
C6_KeymapSet ==
    /\ calls = 0 =>
          /\ cfg.Keymap = MakeMap /\ cfg.Action = NilMap /\ cfg.CustomMatcher = NilMap
          /\ cfg.Matcher = "IgnoreCase" /\ cfg.Prompt = "QUERY>"
          /\ cfg.Style["Basic"] = Style(0, 0)
          /\ cfg.Style["SavedSelection"] = Style(ColorBlack + AttrBold, ColorCyan)
          /\ cfg.Style["Selected"] = Style(AttrUnderline, ColorMagenta)
          /\ cfg.Style["Query"] = Style(0, 0)
          /\ cfg.Style["Matched"] = Style(ColorCyan, 0)
    /\ calls > 0 => \A f \in MapFields : ~Mentions(f) => cfg[f] = pre[f]
    /\ calls = 1 => \A f \in MapFields : ~Mentions(f) => cfg[f].set = (f = "Keymap")

C6_Witness ==
    /\ calls = 1 /\ err = "" /\ doc.members = <<Member("Action", JMap(Entry("k1", "v1")))>>
    /\ cfg.Keymap = MakeMap /\ cfg.CustomMatcher = NilMap /\ cfg.Action.set

\* C9: when the call has returned no handle is open; a handle is acquired only
\* by a successful open and released once, after the decode and before the return.
C9_HandleReleased ==
    calls > 0 =>
        /\ handles = 0
        /\ Count(trace, "open") = (IF doc.kind = "noent" THEN 0 ELSE 1)
        /\ Count(trace, "close") = Count(trace, "open")
        /\ trace[Len(trace)] = "return"
        /\ \A i, j \in 1..Len(trace) :
              /\ (trace[i] = "open" /\ trace[j] = "decode") => i < j
              /\ (trace[i] = "decode" /\ trace[j] = "close") => i < j
              /\ (trace[i] = "close" /\ trace[j] = "return") => i < j

C9_Witness ==
    /\ calls = 2 /\ err = "type" /\ pre # NewConfig /\ handles = 0
    /\ Count(trace, "close") = 1

====
